---- MODULE Spec2Model ----
(***************************************************************************)
(* A model of the call-session core of docker_project/voip_server.py:      *)
(* the session registry (VoIPLibrary.active_calls), the event-handler      *)
(* slots (VoIPLibrary.event_handlers), the callbacks the telephony stack   *)
(* invokes (onIncomingCall, onInstantMessage, Call.onCallState), the       *)
(* media operations of CallSession and its DTMF menu navigation.           *)
(*                                                                         *)
(* The telephony stack (pjsua2) is the environment: it owns the call       *)
(* slots and their invitation state, and it delivers the events.           *)
(***************************************************************************)
EXTENDS Integers, Sequences, FiniteSets, TLC

\* ------------------------------------------------------------- bounds
\* Call slots of the stack (call identifiers 0 .. MaxCalls-1).
MaxCalls == 1
\* Disconnect events the stack delivers for one call (the first and its
\* duplicates).
MaxDisconnects == 2
\* Nodes of a DTMF menu tree (so its depth is at most MaxNodes).
MaxNodes == 3
\* Digits a session's DTMF buffer is let to grow to.
MaxBuffer == 4

CallIds == 0 .. (MaxCalls - 1)

\* ------------------------------------------------------------- values
\* Python's None, for a handler slot and for an absent media handle.
None == "None"

\* The keys of VoIPLibrary.event_handlers.
Kinds ==
  {"incoming_call", "incoming_message", "call_connected", "call_ended",
   "dtmf_received"}

\* The kinds the callbacks of the call-lifecycle specification dispatch.
DispatchedKinds == Kinds \ {"dtmf_received"}

\* What a slot of event_handlers can hold: None, a callable that returns
\* ("ok"), a callable that raises ("raises"), and, for incoming_call, the
\* handler main() and the test console install ("greet": play the greeting,
\* then start recording).
HandlersOf(kind) ==
  IF kind = "incoming_call" THEN {None, "ok", "raises", "greet"}
  ELSE {None, "ok", "raises"}

\* The invitation state the stack keeps for a call slot.  CALLING is the
\* spec's Initiating, INCOMING its Ringing, CONFIRMED its Active.
InvStates == {"NULL", "CALLING", "INCOMING", "CONFIRMED", "DISCONNECTED"}

Live == {"CALLING", "INCOMING", "CONFIRMED"}

\* A menu is a tree of digit-keyed dicts: nodes is the set of the paths
\* (digit sequences from the root) that lead to a dict, act the paths whose
\* dict has an 'action' key.  The empty menu is falsy ({} or missing).
NoMenu == [nodes |-> {}, act |-> {}]

\* The DTMF digits of the model, those of the spec's example menu and
\* sequences: menus are keyed by "1" and "9"; "2" is a digit no menu has.
MenuDigits == {"1", "9"}

Digits == MenuDigits \cup {"2"}

\* Every tree with at most n nodes: a tree with one more node is a tree
\* plus one child of its root or of one of its nodes.
Grow(t) == {t \cup {Append(p, d)} : p \in t \cup {<< >>}, d \in MenuDigits}

RECURSIVE NodeSets(_)
NodeSets(n) ==
  IF n = 0 THEN {{}}
  ELSE LET prev == NodeSets(n - 1)
       IN prev \cup UNION {Grow(t) : t \in prev}

\* The menus config['dtmf_menu'] is drawn from: every tree of at most
\* MaxNodes nodes, with an 'action' on any of its nodes.
Menus ==
  UNION {{[nodes |-> t, act |-> a] : a \in SUBSET t} :
           t \in NodeSets(MaxNodes)}

\* The spec's example menu {"9": {"1": {action: X}}}.
ExampleMenu ==
  [nodes |-> {<<"9">>, <<"9", "1">>}, act |-> {<<"9", "1">>}]

\* CallSession(call, {}) of onIncomingCall: the empty configuration.
Unset == "unset"

EmptyConfig == [record |-> Unset, dtmf_menu |-> NoMenu]

\* config.get('record', True)
ConfigRecord(config) ==
  IF config.record = Unset THEN TRUE ELSE config.record = "True"

\* CallSession.__init__ followed by _init_recording: the recorder is created
\* at construction when the configuration asks for recording (the default).
NewSession(config) ==
  [config |-> config,
   recorder |-> ConfigRecord(config),
   player |-> FALSE,
   audio_med |-> FALSE,
   dtmf_buffer |-> << >>,
   recording_file |-> ConfigRecord(config),
   recording |-> FALSE]

VARIABLES
  service,          \* "constructed" until start_service, then "running"
  event_handlers,   \* VoIPLibrary.event_handlers
  active_calls,     \* VoIPLibrary.active_calls: call id -> CallSession
  inv_state,        \* the stack's invitation state of every call slot
  hist,             \* per call slot, for the call now in it: the disconnect
                    \* events delivered, the call_ended invocations and the
                    \* removals from active_calls they led to
  last,             \* the last operation: what it was and how it ended
  session,          \* a CallSession whose handle_dtmf is exercised
  nav               \* its last handle_dtmf: the list walked, the actions
                    \* fired (by node), whether an action raised

VARIABLES
  norm,             \* one address on its way to makeCall / the buddy URI:
                    \* the input, SIP_REGISTRAR, the path taken, the result
  shutdown,         \* the service around one stop_service: self.running,
                    \* the threads, the endpoint, the hangups attempted
  pipeline,         \* the recordings queued for transcription, the worker's
                    \* position, what it forwarded
  registrations     \* the handlers assigned to event_handlers in order, and
                    \* the handlers the last event invoked

lifecycle == <<service, event_handlers, active_calls, inv_state, hist, last>>

navigation == <<session, nav>>

aside == <<norm, shutdown, pipeline, registrations>>

VARIABLES
  recordings,       \* the millisecond clock and the CallSessions constructed
  keypad,           \* the digits the stack delivered to onCallDtmfDigit and
                    \* what the callback did with the last one
  race              \* the main thread inside place_call and the event thread
                    \* inside a callback, statement by statement

later == <<recordings, keypad, race>>

vars == <<service, event_handlers, active_calls, inv_state, hist, last,
          session, nav, norm, shutdown, pipeline, registrations,
          recordings, keypad, race>>

NoHist == [disc |-> 0, ended |-> 0, removed |-> 0,
           ev |-> [type |-> None, method |-> None],
           dir |-> None, rec |-> FALSE, answered |-> FALSE, ops |-> << >>]

\* The bookkeeping of a call that starts: its direction, and whether the
\* session constructed for it created a recorder and its recording file.
Opened(dir, s) == [NoHist EXCEPT !.dir = dir, !.rec = s.recording_file]

\* How an operation ended: raised is TRUE when an exception left it (for a
\* callback: propagated into the stack), emitted lists the handler kinds it
\* invoked, found whether its registry lookup returned a session, replaced
\* whether a registration overwrote a present entry, nullTx the number of
\* startTransmit/stopTransmit calls made with an absent media handle.
Outcome(cb, id, raised, emitted, found, replaced, nullTx) ==
  [cb |-> cb, id |-> id, raised |-> raised, emitted |-> emitted,
   found |-> found, replaced |-> replaced, nullTx |-> nullTx]

\* ------------------------------------------------------------ registry
\* active_calls is a dict: a function whose domain is the registered ids.
EmptyRegistry == [c \in {} |-> NewSession(EmptyConfig)]

\* self.active_calls[id] = session: a plain dict assignment.
Register(reg, id, s) ==
  [c \in (DOMAIN reg) \cup {id} |-> IF c = id THEN s ELSE reg[c]]

\* del self.active_calls[id]
Delete(reg, id) == [c \in (DOMAIN reg) \ {id} |-> reg[c]]

\* ------------------------------------------------------- media operations
\* Each returns [session, raised, nullTx].  audio_med is set to None by
\* __init__ and assigned nowhere else, so every transmit call of play_audio
\* is made with an absent handle; whether the stack's binding raises on it
\* is the binding's choice (bindRaises).
MediaResult(s, raised, nullTx) ==
  [session |-> s, raised |-> raised, nullTx |-> nullTx]

\* CallSession.play_audio
PlayAudio(s, bindRaises) ==
  LET stopNull == IF s.player /\ ~s.audio_med THEN 1 ELSE 0
      startNull == IF ~s.audio_med THEN 1 ELSE 0
  IN IF stopNull = 1 /\ bindRaises
     THEN MediaResult(s, TRUE, stopNull)
     ELSE MediaResult([s EXCEPT !.player = TRUE],
                      startNull = 1 /\ bindRaises, stopNull + startNull)

\* CallSession.start_recording: transmits only with a recorder and a handle.
StartRecording(s) ==
  IF s.recorder /\ s.audio_med
  THEN MediaResult([s EXCEPT !.recording = TRUE], FALSE, 0)
  ELSE MediaResult(s, FALSE, 0)

\* CallSession.stop_recording: likewise; returns the file or None.
StopRecording(s) ==
  IF s.recorder /\ s.audio_med
  THEN MediaResult([s EXCEPT !.recording = FALSE], FALSE, 0)
  ELSE MediaResult(s, FALSE, 0)

\* ------------------------------------------------------------- handlers
\* Calling the callable h with the session: [session, raised, nullTx].
\* "greet" is the tuple-valued lambda of main(): play_audio is evaluated
\* first, start_recording only when play_audio returned.
Call(h, s, bindRaises) ==
  CASE h = "ok" -> MediaResult(s, FALSE, 0)
    [] h = "raises" -> MediaResult(s, TRUE, 0)
    [] h = "greet" ->
         LET p == PlayAudio(s, bindRaises)
         IN IF p.raised THEN p
            ELSE LET r == StartRecording(p.session)
                 IN MediaResult(r.session, r.raised, p.nullTx + r.nullTx)

\* ---------------------------------------------------------------- setup
\* self.lib.event_handlers[kind] = h, as main() and the test console do
\* before start_service.
SetHandler(kind, h) ==
  /\ service = "constructed"
  /\ event_handlers[kind] # h
  /\ event_handlers' = [event_handlers EXCEPT ![kind] = h]
  /\ last' = Outcome("set_handler", -1, FALSE, << >>, FALSE, FALSE, 0)
  /\ UNCHANGED <<service, active_calls, inv_state, hist, navigation, aside, later>>

\* VoIPLibrary.start_service: the event thread starts delivering events.
StartService ==
  /\ service = "constructed"
  /\ service' = "running"
  /\ last' = Outcome("start_service", -1, FALSE, << >>, FALSE, FALSE, 0)
  /\ UNCHANGED <<event_handlers, active_calls, inv_state, hist, navigation, aside, later>>

\* A slot the stack may give to a new call: one whose call has ended.
FreeSlot(id) == inv_state[id] \in {"NULL", "DISCONNECTED"}

\* ------------------------------------------------------------ callbacks
\* VoIPLibrary.onIncomingCall: the stack puts a new inbound call in a free
\* slot and delivers it.
OnIncomingCall(id, bindRaises) ==
  /\ service = "running"
  /\ FreeSlot(id)
  /\ LET s == NewSession(EmptyConfig)
         h == event_handlers["incoming_call"]
         r == IF h = None THEN MediaResult(s, FALSE, 0)
              ELSE Call(h, s, bindRaises)
     IN /\ active_calls' = Register(active_calls, id, r.session)
        /\ last' = Outcome("onIncomingCall", id, r.raised,
                           IF h = None THEN << >> ELSE <<"incoming_call">>,
                           FALSE, id \in DOMAIN active_calls, r.nullTx)
  /\ inv_state' = [inv_state EXCEPT ![id] = "INCOMING"]
  /\ hist' = [hist EXCEPT ![id] = Opened("inbound", NewSession(EmptyConfig))]
  /\ UNCHANGED <<service, event_handlers, navigation, aside, later>>

\* VoIPLibrary.onInstantMessage
OnInstantMessage ==
  /\ service = "running"
  /\ LET h == event_handlers["incoming_message"]
     IN last' = Outcome("onInstantMessage", -1, h = "raises",
                        IF h = None THEN << >> ELSE <<"incoming_message">>,
                        FALSE, FALSE, 0)
  /\ UNCHANGED <<service, event_handlers, active_calls, inv_state, hist, navigation, aside, later>>

\* VoIPLibrary.place_call: makeCall puts the call in a free slot (or raises),
\* then the session is constructed and registered.
PlaceCall(id, config, makeCallRaises) ==
  /\ service = "running"
  /\ FreeSlot(id)
  /\ IF makeCallRaises
     THEN /\ last' = Outcome("place_call", id, TRUE, << >>, FALSE, FALSE, 0)
          /\ UNCHANGED <<active_calls, inv_state, hist>>
     ELSE /\ active_calls' = Register(active_calls, id, NewSession(config))
          /\ inv_state' = [inv_state EXCEPT ![id] = "CALLING"]
          /\ hist' = [hist EXCEPT ![id] = Opened("outbound", NewSession(config))]
          /\ last' = Outcome("place_call", id, FALSE, << >>, FALSE,
                             id \in DOMAIN active_calls, 0)
  /\ UNCHANGED <<service, event_handlers, navigation, aside, later>>

\* VoIPLibrary.Call.onCallState for the event ev = [type, method], the call
\* being in invitation state st when getInfo() is read:
\* [reg, raised, emitted, found, removed].
CallStateResult(reg, raised, emitted, found, removed) ==
  [reg |-> reg, raised |-> raised, emitted |-> emitted, found |-> found,
   removed |-> removed]

onCallState(id, ev, st) ==
  LET found == id \in DOMAIN active_calls
      ended == event_handlers["call_ended"]
      connected == event_handlers["call_connected"]
  IN IF ev.type = "RX_MSG"
     THEN IF ev.method = "BYE" /\ found
          THEN IF ended = None
               THEN CallStateResult(Delete(active_calls, id), FALSE, << >>,
                                    found, TRUE)
               ELSE IF ended = "raises"
               THEN CallStateResult(active_calls, TRUE, <<"call_ended">>,
                                    found, FALSE)
               ELSE CallStateResult(Delete(active_calls, id), FALSE,
                                    <<"call_ended">>, found, TRUE)
          ELSE CallStateResult(active_calls, FALSE, << >>, found, FALSE)
     ELSE IF st = "CONFIRMED" /\ found
          THEN IF connected = None
               THEN CallStateResult(active_calls, FALSE, << >>, found, FALSE)
               ELSE CallStateResult(active_calls, connected = "raises",
                                    <<"call_connected">>, found, FALSE)
          ELSE CallStateResult(active_calls, FALSE, << >>, found, FALSE)

\* ------------------------------------------------- the stack's call events
\* What ends a call, with the states it can end from and the event that
\* onCallState is handed: only a received BYE is an RX_MSG with method BYE.
Causes ==
  {"remote_bye", "local_hangup", "remote_reject", "transport_failure"}

CauseFrom(cause) ==
  CASE cause = "remote_bye" -> {"CONFIRMED"}
    [] cause = "local_hangup" -> Live
    [] cause = "remote_reject" -> {"CALLING", "INCOMING"}
    [] cause = "transport_failure" -> Live

CauseEvent(cause) ==
  CASE cause = "remote_bye" -> [type |-> "RX_MSG", method |-> "BYE"]
    [] cause = "local_hangup" -> [type |-> "TSX_STATE", method |-> None]
    [] cause = "remote_reject" -> [type |-> "RX_MSG", method |-> "OTHER"]
    [] cause = "transport_failure" -> [type |-> "TX_ERROR", method |-> None]

\* The bookkeeping of one delivered disconnect event.
Count(h, ev, r) ==
  [h EXCEPT
     !.disc = h.disc + 1,
     !.ended = h.ended + (IF r.emitted = <<"call_ended">> THEN 1 ELSE 0),
     !.removed = h.removed + (IF r.removed THEN 1 ELSE 0),
     !.ev = ev,
     !.ops = h.ops \o r.emitted \o (IF r.removed THEN <<"remove">> ELSE << >>)]

\* The call in slot id becomes confirmed (answered); the event that carries
\* the change is a transaction state change or a received message.
Answer(id, evType) ==
  /\ service = "running"
  /\ inv_state[id] \in {"CALLING", "INCOMING"}
  /\ inv_state' = [inv_state EXCEPT ![id] = "CONFIRMED"]
  /\ LET r == onCallState(id, [type |-> evType, method |-> "OTHER"],
                          "CONFIRMED")
     IN /\ active_calls' = r.reg
        /\ last' = Outcome("onCallState", id, r.raised, r.emitted, r.found,
                           FALSE, 0)
  /\ hist' = [hist EXCEPT ![id].answered = TRUE]
  /\ UNCHANGED <<service, event_handlers, navigation, aside, later>>

\* The call in slot id ends; a hangup by this core (session.call.hangup, as
\* stop_service issues it) needs the session to reach the call.
Disconnect(id, cause) ==
  /\ service = "running"
  /\ inv_state[id] \in CauseFrom(cause)
  /\ cause = "local_hangup" => id \in DOMAIN active_calls
  /\ inv_state' = [inv_state EXCEPT ![id] = "DISCONNECTED"]
  /\ LET r == onCallState(id, CauseEvent(cause), "DISCONNECTED")
     IN /\ active_calls' = r.reg
        /\ hist' = [hist EXCEPT ![id] = Count(hist[id], CauseEvent(cause), r)]
        /\ last' = Outcome("onCallState", id, r.raised, r.emitted, r.found,
                           FALSE, 0)
  /\ UNCHANGED <<service, event_handlers, navigation, aside, later>>

\* The stack delivers the disconnect event of an ended call once more.
DuplicateDisconnect(id) ==
  /\ service = "running"
  /\ inv_state[id] = "DISCONNECTED"
  /\ hist[id].disc >= 1
  /\ hist[id].disc < MaxDisconnects
  /\ LET r == onCallState(id, hist[id].ev, "DISCONNECTED")
     IN /\ active_calls' = r.reg
        /\ hist' = [hist EXCEPT ![id] = Count(hist[id], hist[id].ev, r)]
        /\ last' = Outcome("onCallState", id, r.raised, r.emitted, r.found,
                           FALSE, 0)
  /\ UNCHANGED <<service, event_handlers, inv_state, navigation, aside, later>>

\* The configurations place_call is given: 'record' unset, True or False.
Configs == {[record |-> rec, dtmf_menu |-> NoMenu] :
              rec \in {Unset, "True", "False"}}

\* ------------------------------------------------------ DTMF navigation
\* current.get(d, {}): the child of the node at path cur along digit d, or
\* the empty dict (which has no child and no 'action').
EmptyDict == <<"{}">>

Child(menu, cur, d) ==
  IF Append(cur, d) \in menu.nodes THEN Append(cur, d) ELSE EmptyDict

\* Lines 74-75 once the action has returned: self.dtmf_buffer = [].
AfterFireKeep(out, fired) == [out EXCEPT !.fired = fired]

AfterFire(out, fired) ==
  [buffer |-> << >>, fired |-> fired, raised |-> FALSE]

\* The loop of handle_dtmf over the list buf (the buffer as it was after the
\* append; the loop keeps iterating it when self.dtmf_buffer is rebound),
\* from position i with cursor cur.  out is [buffer, fired, raised]; the
\* raiseAt-th action invoked raises (0: none does), which ends the call with
\* the buffer as it is.
RECURSIVE Walk(_, _, _, _, _, _)
Walk(menu, buf, i, cur, out, raiseAt) ==
  IF i > Len(buf) THEN out
  ELSE LET next == Child(menu, cur, buf[i])
       IN IF next \in menu.act
          THEN LET fired == Append(out.fired, next)
               IN IF Len(fired) = raiseAt
                  THEN [out EXCEPT !.fired = fired, !.raised = TRUE]
                  ELSE Walk(menu, buf, i + 1, next, AfterFire(out, fired),
                            raiseAt)
          ELSE Walk(menu, buf, i + 1, next, out, raiseAt)

\* A slip that navigates before the digit is appended: the walk misses the
\* digit just received.
HandleDtmfLate(s, digit, raiseAt) ==
  LET menu == s.config.dtmf_menu
      old == s.dtmf_buffer
      buf == Append(old, digit)
      start == [buffer |-> buf, fired |-> << >>, raised |-> FALSE]
  IN IF menu.nodes = {} THEN start
     ELSE LET w == Walk(menu, old, 1, << >>, start, raiseAt)
          IN w

\* CallSession.handle_dtmf: [buffer, fired, raised].
HandleDtmf(s, digit, raiseAt) ==
  LET menu == s.config.dtmf_menu
      buf == Append(s.dtmf_buffer, digit)
      start == [buffer |-> buf, fired |-> << >>, raised |-> FALSE]
  IN IF menu.nodes = {} THEN start
     ELSE Walk(menu, buf, 1, << >>, start, raiseAt)

\* session.handle_dtmf(d) on the exercised session.
Digit(d, raiseAt) ==
  /\ Len(session.dtmf_buffer) < MaxBuffer
  /\ LET r == HandleDtmf(session, d, raiseAt)
     IN /\ session' = [session EXCEPT !.dtmf_buffer = r.buffer]
        /\ nav' = [walked |-> Append(session.dtmf_buffer, d),
                   fired |-> r.fired, raised |-> r.raised]
  /\ UNCHANGED <<lifecycle, aside, later>>

NoNav == [walked |-> << >>, fired |-> << >>, raised |-> FALSE]

\* ------------------------------------------------- address normalization
\* A string is the sequence of its pieces: a piece is one character of a
\* phone number, or a run of characters that holds no '@' and no ':' (a
\* scheme, a user, a host, a port).
MaxLen == 3

MaxPasses == 2

DigitPieces == {"1", "2", "3", "4", "5", "6", "7", "5060"}

NumberPieces == {"+", "5", "-", "sip", ":"}

RECURSIVE SeqsUpTo(_, _)
SeqsUpTo(S, n) ==
  IF n = 0 THEN {<< >>}
  ELSE LET prev == SeqsUpTo(S, n - 1)
       IN prev \cup {Append(w, c) : w \in prev, c \in S}

\* "(555) 123-4567"
ExampleNumber ==
  <<"(", "5", "5", "5", ")", " ", "1", "2", "3", "-", "4", "5", "6", "7">>

\* "sip:alice@example.com"
ExampleUri == <<"sip", ":", "alice", "@", "example.com">>

Numbers == SeqsUpTo(NumberPieces, MaxLen) \cup {ExampleNumber, ExampleUri}

Hosts == {"provider.example.com", "pbx.local"}

\* The values SIP_REGISTRAR takes: [sip:][user@]host[:port].
Endpoints ==
  [scheme : BOOLEAN, user : BOOLEAN, host : Hosts, port : BOOLEAN]

Render(e) ==
  (IF e.scheme THEN <<"sip", ":">> ELSE << >>)
    \o (IF e.user THEN <<"user", "@">> ELSE << >>)
    \o <<e.host>>
    \o (IF e.port THEN <<":", "5060">> ELSE << >>)

\* os.getenv("SIP_REGISTRAR", "sip:provider.example.com") with the variable
\* unset.
DefaultRegistrar ==
  [scheme |-> TRUE, user |-> FALSE, host |-> "provider.example.com",
   port |-> FALSE]

\* re.sub(r'(?!^\+)\D', '', number): every non-digit goes, except a '+' that
\* is the first character.
Cleaned(number) ==
  LET keep(i) == \/ number[i] \in DigitPieces
                 \/ i = 1 /\ number[i] = "+"
      f[i \in 0 .. Len(number)] ==
        IF i = 0 THEN << >>
        ELSE IF keep(i) THEN Append(f[i - 1], number[i]) ELSE f[i - 1]
  IN f[Len(number)]

\* str.split(sep)[-1] and str.split(sep)[0]
SplitLast(str, sep) ==
  LET at == {i \in 1 .. Len(str) : str[i] = sep}
  IN IF at = {} THEN str
     ELSE SubSeq(str, (CHOOSE i \in at : \A j \in at : j <= i) + 1, Len(str))

SplitFirst(str, sep) ==
  LET at == {i \in 1 .. Len(str) : str[i] = sep}
  IN IF at = {} THEN str
     ELSE SubSeq(str, 1, (CHOOSE i \in at : \A j \in at : i <= j) - 1)

\* f"sip:{cleaned}@{domain}"
SipUri(cleaned, domain) == <<"sip", ":">> \o cleaned \o <<"@">> \o domain

\* VoIPLibrary._format_phone_number
format_phone_number(number, registrar) ==
  SipUri(Cleaned(number), SplitFirst(SplitLast(registrar, "@"), ":"))

\* VoIPTestConsole._format_phone_number
console_format_phone_number(number, registrar) ==
  SipUri(Cleaned(number), SplitLast(registrar, "@"))

\* number.startswith("sip:")
StartsWithSip(number) ==
  Len(number) >= 2 /\ number[1] = "sip" /\ number[2] = ":"

\* The address VoIPLibrary.place_call hands to makeCall, and send_message to
\* sendInstantMessage.
Destination(number, registrar) ==
  IF StartsWithSip(number) THEN number
  ELSE format_phone_number(number, registrar)

LibPaths == {"place_call", "send_message"}

ConsolePaths == {"console.place_call", "console.send_message"}

Paths == {"_format_phone_number"} \cup LibPaths \cup ConsolePaths

\* The address a path ends with.
Via(path, number, registrar) ==
  CASE path = "_format_phone_number" -> format_phone_number(number, registrar)
    [] path \in LibPaths -> Destination(number, registrar)
    [] path \in ConsolePaths ->
         Destination(console_format_phone_number(number, registrar),
                     registrar)

NoNorm == [number |-> << >>, registrar |-> << >>, host |-> None,
           path |-> None, out |-> << >>, pass |-> 0]

\* An address is given to one path.
Normalize(path) ==
  /\ norm.pass = 0
  /\ norm' = [norm EXCEPT !.path = path, !.pass = 1,
                          !.out = Via(path, norm.number, norm.registrar)]
  /\ UNCHANGED <<lifecycle, navigation, shutdown, pipeline, registrations, later>>

\* The address the path ended with is given to the same path again.
Renormalize ==
  /\ norm.pass >= 1
  /\ norm.pass < MaxPasses
  /\ norm' = [norm EXCEPT !.number = norm.out, !.pass = norm.pass + 1,
                          !.out = Via(norm.path, norm.out, norm.registrar)]
  /\ UNCHANGED <<lifecycle, navigation, shutdown, pipeline, registrations, later>>

\* ------------------------------------------------------------- shutdown
\* The sessions registered when the service is stopped.
MaxActive == 2

ActiveIds == 0 .. (MaxActive - 1)

\* The main thread (main, VoIPTestConsole.run) and the event thread.
Threads == {"main", "event"}

\* One invocation of stop_service: where it is, list(active_calls.items())
\* as it took it, the hangups it attempted and those that raised, whether
\* the account was unregistered, whether it called libDestroy, how it ended.
NoStop == [pc |-> "idle", snapshot |-> << >>, attempted |-> << >>,
           failed |-> {}, unregistered |-> FALSE, destroyed |-> FALSE,
           result |-> None]

\* Before start_service: no event thread, nobody stopping.
NoShutdown == [running |-> FALSE, main |-> "serving", loop |-> "unstarted",
               stop |-> [t \in Threads |-> NoStop]]

\* After start_service: self.running = True, the event thread started.
Started == [NoShutdown EXCEPT !.running = TRUE, !.loop = "check"]

\* The orders list(self.active_calls.items()) can have: the dict keeps the
\* order in which the calls were registered.
Orders(ids) ==
  {w \in SeqsUpTo(ids, MaxActive) :
     Len(w) = Cardinality(ids) /\ {w[i] : i \in 1 .. Len(w)} = ids}

\* Lines 183-186 with the except clause left out: the error of a hangup
\* leaves stop_service.
AfterHangupUncaught(st, id, raises) ==
  IF raises
  THEN [st EXCEPT !.attempted = Append(st.attempted, id),
                  !.failed = st.failed \cup {id},
                  !.pc = "ended", !.result = "raised"]
  ELSE [st EXCEPT !.attempted = Append(st.attempted, id),
                  !.pc = IF Len(st.attempted) + 1 = Len(st.snapshot)
                         THEN "unregister" ELSE "hangup"]

\* Lines 182-186, one iteration: session.call.hangup in a try whose except
\* clause logs; the loop goes on.
AfterHangup(st, id, raises) ==
  [st EXCEPT !.attempted = Append(st.attempted, id),
             !.failed = IF raises THEN st.failed \cup {id} ELSE st.failed,
             !.pc = IF Len(st.attempted) + 1 = Len(st.snapshot)
                    THEN "unregister" ELSE "hangup"]

\* threading.Thread.is_alive of the event thread: it is alive until
\* _event_loop returns or an exception leaves it.
EventThreadAlive == shutdown.loop \notin {"exited", "dead"}

NotShutdown == <<service, event_handlers, inv_state, hist, last, navigation,
                 norm, pipeline, registrations, later>>

\* _event_loop, line 170: while self.running.
LoopCheck ==
  /\ shutdown.loop = "check"
  /\ shutdown' = [shutdown EXCEPT
                    !.loop = IF shutdown.running THEN "handle" ELSE "exited"]
  /\ UNCHANGED <<active_calls, NotShutdown>>

\* _event_loop, lines 171-172: libHandleEvents, which may deliver the BYE of
\* a registered call (onCallState then deletes its session) and may raise.
HandleEvents(bye, raises) ==
  /\ shutdown.loop = "handle"
  /\ shutdown' = [shutdown EXCEPT
                    !.loop = IF raises THEN "except" ELSE "check"]
  /\ active_calls' = IF bye \in DOMAIN active_calls
                     THEN Delete(active_calls, bye) ELSE active_calls
  /\ UNCHANGED NotShutdown

\* stop_service is entered, lines 181-182: by the main thread (Ctrl+C in
\* main, the end of VoIPTestConsole.run) or by the event thread from the
\* except clauses of _event_loop.
StopService(t) ==
  /\ shutdown.stop[t].pc = "idle"
  /\ \/ t = "main" /\ shutdown.main = "serving"
     \/ t = "event" /\ shutdown.loop = "except"
  /\ \E order \in Orders(DOMAIN active_calls) :
       shutdown' =
         [shutdown EXCEPT
            !.running = FALSE,
            !.main = IF t = "main" THEN "stopping" ELSE @,
            !.loop = IF t = "event" THEN "stopping" ELSE @,
            !.stop[t] = [NoStop EXCEPT
                           !.snapshot = order,
                           !.pc = IF order = << >> THEN "unregister"
                                  ELSE "hangup"]]
  /\ UNCHANGED <<active_calls, NotShutdown>>

\* Lines 182-186: the hangup of the next session of the snapshot.
Hangup(t, raises) ==
  /\ shutdown.stop[t].pc = "hangup"
  /\ LET st == shutdown.stop[t]
         id == st.snapshot[Len(st.attempted) + 1]
     IN shutdown' = [shutdown EXCEPT !.stop[t] = AfterHangup(st, id, raises)]
  /\ UNCHANGED <<active_calls, NotShutdown>>

\* Lines 188-191: setRegistration(False); an error is logged.
Unregister(t, raises) ==
  /\ shutdown.stop[t].pc = "unregister"
  /\ shutdown' = [shutdown EXCEPT !.stop[t].pc = "sleep",
                                  !.stop[t].unregistered = ~raises]
  /\ UNCHANGED <<active_calls, NotShutdown>>

\* Line 193: time.sleep(1).
Sleep(t) ==
  /\ shutdown.stop[t].pc = "sleep"
  /\ shutdown' = [shutdown EXCEPT !.stop[t].pc = "destroy"]
  /\ UNCHANGED <<active_calls, NotShutdown>>

\* Line 195: self.ep.libDestroy().
LibDestroy(t) ==
  /\ shutdown.stop[t].pc = "destroy"
  /\ shutdown' = [shutdown EXCEPT !.stop[t].pc = "join",
                                  !.stop[t].destroyed = TRUE]
  /\ UNCHANGED <<active_calls, NotShutdown>>

\* Lines 196-197: if self.event_thread.is_alive(): join(timeout=1).  A
\* thread that joins itself gets RuntimeError("cannot join current thread");
\* the main thread's join returns after at most the timeout.
Join(t) ==
  /\ shutdown.stop[t].pc = "join"
  /\ LET selfJoin == EventThreadAlive /\ t = "event"
     IN shutdown' =
          [shutdown EXCEPT
             !.stop[t].pc = "ended",
             !.stop[t].result = IF selfJoin THEN "raised" ELSE "returned",
             !.main = IF t = "main" THEN "done" ELSE @,
             !.loop = IF t = "event"
                      THEN (IF selfJoin THEN "dead" ELSE "exited") ELSE @]
  /\ UNCHANGED <<active_calls, NotShutdown>>

\* ------------------------------------------------ transcription pipeline
MaxJobs == 3

\* A queued recording, by what decides its processing: whether the
\* recording file exists, whether the whisper.cpp executable and model are
\* in place, whether the engine exits with 0, whether the vault accepts
\* the idea.
Jobs == [file : BOOLEAN, whisper : BOOLEAN, engine : BOOLEAN, save : BOOLEAN]

\* AudioFileSource.get_content: FileNotFoundError without the recording, the
\* executable or the model; RuntimeError when the engine fails; the text
\* otherwise.
get_content(job) ==
  IF ~job.file \/ ~job.whisper \/ ~job.engine
  THEN [raised |-> TRUE, content |-> FALSE]
  ELSE [raised |-> FALSE, content |-> TRUE]

\* process_input without its try/except: the error of get_content leaves it.
process_input_unguarded(job) ==
  LET c == get_content(job)
  IN IF c.raised
     THEN [raised |-> TRUE, transcribed |-> FALSE, forwarded |-> FALSE,
           idea |-> FALSE]
     ELSE [raised |-> FALSE, transcribed |-> TRUE, forwarded |-> TRUE,
           idea |-> job.save]

\* IdeaSummarizer.process_input("audio_file", file_path=...): the content is
\* transcribed, handed to the processor, saved; any exception is logged and
\* None returned.
process_input(job) ==
  LET c == get_content(job)
  IN IF c.raised
     THEN [raised |-> FALSE, transcribed |-> FALSE, forwarded |-> FALSE,
           idea |-> FALSE]
     ELSE [raised |-> FALSE, transcribed |-> TRUE, forwarded |-> TRUE,
           idea |-> job.save]

\* The queue, the jobs the worker took in order, what became of each, and
\* whether the worker still runs.
NoPipeline == [jobs |-> << >>, taken |-> << >>, results |-> << >>,
               alive |-> TRUE]

NotPipeline == <<lifecycle, navigation, norm, shutdown, registrations,
                 later>>

\* A finished recording is queued.
Enqueue(job) ==
  /\ Len(pipeline.jobs) + Len(pipeline.taken) < MaxJobs
  /\ pipeline' = [pipeline EXCEPT !.jobs = Append(@, job)]
  /\ UNCHANGED NotPipeline

\* The worker takes the job at the head of the queue and processes it; an
\* exception that leaves the processing ends the worker.
Work ==
  /\ pipeline.alive
  /\ pipeline.jobs # << >>
  /\ LET job == Head(pipeline.jobs)
         r == process_input(job)
     IN pipeline' = [jobs |-> Tail(pipeline.jobs),
                     taken |-> Append(pipeline.taken, job),
                     results |-> Append(pipeline.results, r),
                     alive |-> ~r.raised]
  /\ UNCHANGED NotPipeline

\* ------------------------------------------------- handler registrations
MaxRegs == 3

\* Two callables that return normally, told apart by name.
Callables == {"h1", "h2"}

\* Registering only when the slot is empty: the first registration stays.
AssignIfEmpty(handlers, kind, h) ==
  IF handlers[kind] = None THEN [handlers EXCEPT ![kind] = h] ELSE handlers

\* lib.event_handlers[kind] = h: a dict assignment.
Assign(handlers, kind, h) == [handlers EXCEPT ![kind] = h]

\* if self.event_handlers[kind]: self.event_handlers[kind](...): the
\* callables an event of the kind invokes, in order.
Invoked(handlers, kind) ==
  IF handlers[kind] # None THEN <<handlers[kind]>> ELSE << >>

\* The registrations made, in order; the kind of the last event delivered
\* and the callables it invoked.
NoRegistrations == [log |-> << >>, event |-> None, invoked |-> << >>]

\* A handler is registered, as main() and _setup_handlers do.
AssignHandler(kind, h) ==
  /\ Len(registrations.log) < MaxRegs
  /\ event_handlers' = Assign(event_handlers, kind, h)
  /\ registrations' = [log |-> Append(registrations.log,
                                      [kind |-> kind, h |-> h]),
                       event |-> None, invoked |-> << >>]
  /\ UNCHANGED <<service, active_calls, inv_state, hist, last, navigation,
                 norm, shutdown, pipeline, later>>

\* onIncomingCall with handlers that return: the session is registered,
\* then the incoming_call handler is called with it.
IncomingCallEvent(id) ==
  /\ active_calls' = Register(active_calls, id, NewSession(EmptyConfig))
  /\ registrations' = [registrations EXCEPT
                         !.event = "incoming_call",
                         !.invoked = Invoked(event_handlers, "incoming_call")]
  /\ UNCHANGED <<service, event_handlers, inv_state, hist, last, navigation,
                 norm, shutdown, pipeline, later>>

\* onInstantMessage with handlers that return.
IncomingMessageEvent ==
  /\ registrations' = [registrations EXCEPT
                         !.event = "incoming_message",
                         !.invoked = Invoked(event_handlers,
                                             "incoming_message")]
  /\ UNCHANGED <<lifecycle, navigation, norm, shutdown, pipeline, later>>

\* ---------------------------------------------------- recording file names
MaxClock == 2

MaxSessions == 3

\* CallSession._init_recording at the clock reading now (int(time.time() *
\* 1000)): f"recording_{now}.wav" when recording is configured, else the None
\* that __init__ left.
init_recording(config, now) ==
  IF ConfigRecord(config) THEN <<"recording_", now, ".wav">> ELSE <<None>>

\* The session CallSession(call, config) constructs at the clock reading now.
CallSessionAt(config, now) ==
  [NewSession(config) EXCEPT !.recording_file = init_recording(config, now)]

\* The clock in milliseconds, and the sessions constructed so far.
NoRecordings == [clock |-> 0, sessions |-> << >>]

\* A millisecond passes.
Tick ==
  /\ recordings.clock < MaxClock
  /\ recordings' = [recordings EXCEPT !.clock = @ + 1]
  /\ UNCHANGED <<lifecycle, navigation, aside, keypad, race>>

\* A CallSession is constructed, by place_call (any config) or by
\* onIncomingCall (the empty config), for a new call.
Construct(config) ==
  /\ Len(recordings.sessions) < MaxSessions
  /\ recordings' =
       [recordings EXCEPT
          !.sessions = Append(@, CallSessionAt(config, recordings.clock))]
  /\ UNCHANGED <<lifecycle, navigation, aside, keypad, race>>

\* --------------------------------------------------------- DTMF delivery
\* Call.onCallDtmfDigit: [reg, found, did, raised].  did lists what the
\* callback ran: the session's handle_dtmf, then the dtmf_received handler;
\* an action that raises inside handle_dtmf ends the callback there.
onCallDtmfDigit(id, d, raiseAt) ==
  LET found == id \in DOMAIN active_calls
      h == event_handlers["dtmf_received"]
  IN IF found /\ h # None
     THEN LET r == HandleDtmf(active_calls[id], d, raiseAt)
              reg == [active_calls EXCEPT ![id].dtmf_buffer = r.buffer]
          IN IF r.raised
             THEN [reg |-> reg, found |-> found, did |-> <<"handle_dtmf">>,
                   raised |-> TRUE]
             ELSE [reg |-> reg, found |-> found,
                   did |-> <<"handle_dtmf", "dtmf_received">>,
                   raised |-> h = "raises"]
     ELSE [reg |-> active_calls, found |-> found, did |-> << >>,
           raised |-> FALSE]

\* The digits delivered so far, and the last delivery: whether its call had
\* a session, what the callback ran, whether an error left it.
NoKeypad == [delivered |-> << >>, found |-> FALSE, did |-> << >>,
             raised |-> FALSE]

\* The stack delivers digit d for call id.
DtmfDigit(id, d, raiseAt) ==
  /\ Len(keypad.delivered) < MaxBuffer
  /\ LET r == onCallDtmfDigit(id, d, raiseAt)
     IN /\ active_calls' = r.reg
        /\ keypad' = [delivered |-> Append(keypad.delivered, d),
                      found |-> r.found, did |-> r.did, raised |-> r.raised]
  /\ UNCHANGED <<service, event_handlers, inv_state, hist, last, navigation,
                 aside, recordings, race>>

\* ------------------------------------------- threads around the registry
\* The main thread runs place_call and then stop_service's snapshot; the
\* event thread runs onCallState for the events of the call.  The source
\* takes no lock around active_calls: whether one dict operation excludes
\* another is left to the interpreter (gil: a build with a global interpreter
\* lock runs them one at a time, a free-threaded build does not).
NoRace == [gil |-> TRUE, id |-> -1, main |-> "idle", event |-> "idle",
           inside |-> {}, ev |-> None, found |-> FALSE, lost |-> << >>,
           emitted |-> << >>]

\* A thread may start a dict operation on active_calls.
CanEnter == race.gil => race.inside = {}

NotRaced == <<service, event_handlers, hist, last, navigation, aside,
              recordings, keypad>>

\* place_call, line 120: call.makeCall; an error is logged and re-raised.
MakeCall(id, raises) ==
  /\ race.main = "idle"
  /\ inv_state[id] = "NULL"
  /\ race' = [race EXCEPT !.main = IF raises THEN "raised" ELSE "called",
                          !.id = id]
  /\ inv_state' = IF raises THEN inv_state
                  ELSE [inv_state EXCEPT ![id] = "CALLING"]
  /\ UNCHANGED <<active_calls, NotRaced>>

\* place_call, lines 121-122: the session is constructed and
\* self.active_calls[call.getId()] = session begins ...
BeginRegister ==
  /\ race.main = "called"
  /\ CanEnter
  /\ race' = [race EXCEPT !.main = "registering", !.inside = @ \cup {"main"}]
  /\ UNCHANGED <<active_calls, inv_state, NotRaced>>

\* ... and completes.
EndRegister(config) ==
  /\ race.main = "registering"
  /\ active_calls' = Register(active_calls, race.id, NewSession(config))
  /\ race' = [race EXCEPT !.main = "placed", !.inside = @ \ {"main"}]
  /\ UNCHANGED <<inv_state, NotRaced>>

\* stop_service, line 182: list(self.active_calls.items()) begins ...
BeginSnapshot ==
  /\ race.main = "placed"
  /\ CanEnter
  /\ race' = [race EXCEPT !.main = "snapshotting", !.inside = @ \cup {"main"}]
  /\ UNCHANGED <<active_calls, inv_state, NotRaced>>

\* ... and completes.
EndSnapshot ==
  /\ race.main = "snapshotting"
  /\ race' = [race EXCEPT !.main = "stopping", !.inside = @ \ {"main"}]
  /\ UNCHANGED <<active_calls, inv_state, NotRaced>>

\* The stack, once makeCall was issued, delivers an event of the call to
\* onCallState on the event thread: the call is confirmed (a transaction
\* state event), or the remote's BYE arrives.
Deliver(ev) ==
  /\ race.event = "idle"
  /\ race.main \notin {"idle", "raised"}
  /\ \/ ev = "confirmed" /\ inv_state[race.id] = "CALLING"
     \/ ev = "bye" /\ inv_state[race.id] = "CONFIRMED"
  /\ inv_state' = [inv_state EXCEPT
                     ![race.id] = IF ev = "bye" THEN "DISCONNECTED"
                                  ELSE "CONFIRMED"]
  /\ race' = [race EXCEPT !.event = "deliver", !.ev = ev]
  /\ UNCHANGED <<active_calls, NotRaced>>

\* onCallState, line 231: self.account.active_calls.get(self.getId())
\* begins ...
BeginLookup ==
  /\ race.event = "deliver"
  /\ CanEnter
  /\ race' = [race EXCEPT !.event = "looking", !.inside = @ \cup {"event"}]
  /\ UNCHANGED <<active_calls, inv_state, NotRaced>>

\* ... and completes: session is the entry, or None.
EndLookup ==
  /\ race.event = "looking"
  /\ race' = [race EXCEPT !.event = "dispatch",
                          !.found = race.id \in DOMAIN active_calls,
                          !.inside = @ \ {"event"}]
  /\ UNCHANGED <<active_calls, inv_state, NotRaced>>

\* onCallState, lines 232-239, with the session it looked up: the handler
\* of the event is called when the session was found (and then, for a BYE,
\* the del follows); an event that found none does nothing.
Dispatch ==
  /\ race.event = "dispatch"
  /\ LET kind == IF race.ev = "bye" THEN "call_ended" ELSE "call_connected"
         called == IF event_handlers[kind] # None THEN <<kind>> ELSE << >>
     IN race' =
          IF race.found
          THEN [race EXCEPT
                  !.emitted = @ \o called,
                  !.event = IF race.ev = "bye" THEN "remove" ELSE "idle"]
          ELSE [race EXCEPT !.lost = Append(@, race.ev), !.event = "idle"]
  /\ UNCHANGED <<active_calls, inv_state, NotRaced>>

\* onCallState, line 236: del self.account.active_calls[self.getId()]
\* begins ...
BeginRemove ==
  /\ race.event = "remove"
  /\ CanEnter
  /\ race' = [race EXCEPT !.event = "removing", !.inside = @ \cup {"event"}]
  /\ UNCHANGED <<active_calls, inv_state, NotRaced>>

\* ... and completes.
EndRemove ==
  /\ race.event = "removing"
  /\ active_calls' = Delete(active_calls, race.id)
  /\ race' = [race EXCEPT !.event = "idle", !.inside = @ \ {"event"}]
  /\ UNCHANGED <<inv_state, NotRaced>>

\* ------------------------------------------------------ specifications
\* Nothing constructed, delivered or raced yet.
LaterIdle ==
  /\ recordings = NoRecordings
  /\ keypad = NoKeypad
  /\ race = NoRace

\* VoIPLibrary.__init__, no call yet.
Constructed ==
  /\ service = "constructed"
  /\ event_handlers = [k \in Kinds |-> None]
  /\ active_calls = EmptyRegistry
  /\ inv_state = [c \in CallIds |-> "NULL"]
  /\ hist = [c \in CallIds |-> NoHist]
  /\ last = Outcome("__init__", -1, FALSE, << >>, FALSE, FALSE, 0)

Init ==
  /\ service = "constructed"
  /\ event_handlers = [k \in Kinds |-> None]
  /\ active_calls = EmptyRegistry
  /\ inv_state = [c \in CallIds |-> "NULL"]
  /\ hist = [c \in CallIds |-> NoHist]
  /\ last = Outcome("__init__", -1, FALSE, << >>, FALSE, FALSE, 0)
  /\ session = NewSession(EmptyConfig)
  /\ nav = NoNav
  /\ norm = NoNorm
  /\ shutdown = NoShutdown
  /\ pipeline = NoPipeline
  /\ registrations = NoRegistrations
  /\ LaterIdle

Next ==
  \/ \E k \in DispatchedKinds : \E h \in HandlersOf(k) : SetHandler(k, h)
  \/ StartService
  \/ \E id \in CallIds, b \in BOOLEAN : OnIncomingCall(id, b)
  \/ OnInstantMessage
  \/ \E id \in CallIds, c \in Configs, b \in BOOLEAN : PlaceCall(id, c, b)
  \/ \E id \in CallIds, t \in {"TSX_STATE", "RX_MSG"} : Answer(id, t)
  \/ \E id \in CallIds, c \in Causes : Disconnect(id, c)
  \/ \E id \in CallIds : DuplicateDisconnect(id)

Spec == Init /\ [][Next]_vars

\* The navigation specification: one session constructed with any menu, and
\* any digits delivered to it.
DtmfInit ==
  /\ service = "constructed"
  /\ event_handlers = [k \in Kinds |-> None]
  /\ active_calls = EmptyRegistry
  /\ inv_state = [c \in CallIds |-> "NULL"]
  /\ hist = [c \in CallIds |-> NoHist]
  /\ last = Outcome("__init__", -1, FALSE, << >>, FALSE, FALSE, 0)
  /\ \E m \in Menus :
       session = NewSession([record |-> Unset, dtmf_menu |-> m])
  /\ nav = NoNav
  /\ norm = NoNorm
  /\ shutdown = NoShutdown
  /\ pipeline = NoPipeline
  /\ registrations = NoRegistrations
  /\ LaterIdle

DtmfNext ==
  \E d \in Digits : \E raiseAt \in 0 .. MaxBuffer : Digit(d, raiseAt)

DtmfSpec == DtmfInit /\ [][DtmfNext]_vars

\* The normalization specification: any number, any SIP_REGISTRAR, any path.
NormInit ==
  /\ Constructed
  /\ session = NewSession(EmptyConfig)
  /\ nav = NoNav
  /\ \E number \in Numbers, e \in Endpoints :
       norm = [NoNorm EXCEPT !.number = number, !.registrar = Render(e),
                             !.host = e.host]
  /\ shutdown = NoShutdown
  /\ pipeline = NoPipeline
  /\ registrations = NoRegistrations
  /\ LaterIdle

NormNext ==
  \/ \E path \in Paths : Normalize(path)
  \/ Renormalize

NormSpec == NormInit /\ [][NormNext]_vars

\* The shutdown specification: the service started, any sessions
\* registered, the event loop running, and stop_service entered by either
\* thread.
ShutdownInit ==
  /\ service = "running"
  /\ event_handlers = [k \in Kinds |-> None]
  /\ \E ids \in SUBSET ActiveIds :
       active_calls = [id \in ids |-> NewSession(EmptyConfig)]
  /\ inv_state = [c \in CallIds |-> "NULL"]
  /\ hist = [c \in CallIds |-> NoHist]
  /\ last = Outcome("start_service", -1, FALSE, << >>, FALSE, FALSE, 0)
  /\ session = NewSession(EmptyConfig)
  /\ nav = NoNav
  /\ norm = NoNorm
  /\ shutdown = Started
  /\ pipeline = NoPipeline
  /\ registrations = NoRegistrations
  /\ LaterIdle

ShutdownNext ==
  \/ LoopCheck
  \/ \E bye \in ActiveIds \cup {-1}, raises \in BOOLEAN :
       HandleEvents(bye, raises)
  \/ \E t \in Threads : StopService(t)
  \/ \E t \in Threads, raises \in BOOLEAN : Hangup(t, raises)
  \/ \E t \in Threads, raises \in BOOLEAN : Unregister(t, raises)
  \/ \E t \in Threads : Sleep(t)
  \/ \E t \in Threads : LibDestroy(t)
  \/ \E t \in Threads : Join(t)

ShutdownSpec == ShutdownInit /\ [][ShutdownNext]_vars

\* The pipeline specification: recordings are queued, one worker processes
\* them.
PipelineInit ==
  /\ Constructed
  /\ session = NewSession(EmptyConfig)
  /\ nav = NoNav
  /\ norm = NoNorm
  /\ shutdown = NoShutdown
  /\ pipeline = NoPipeline
  /\ registrations = NoRegistrations
  /\ LaterIdle

PipelineNext ==
  \/ \E job \in Jobs : Enqueue(job)
  \/ Work

PipelineSpec == PipelineInit /\ [][PipelineNext]_vars

\* The registration specification: handlers are registered in any order,
\* for any kind, and incoming calls and messages are delivered in between.
HandlerInit ==
  /\ Constructed
  /\ session = NewSession(EmptyConfig)
  /\ nav = NoNav
  /\ norm = NoNorm
  /\ shutdown = NoShutdown
  /\ pipeline = NoPipeline
  /\ registrations = NoRegistrations
  /\ LaterIdle

HandlerNext ==
  \/ \E kind \in Kinds, h \in Callables : AssignHandler(kind, h)
  \/ \E id \in CallIds : IncomingCallEvent(id)
  \/ IncomingMessageEvent

HandlerSpec == HandlerInit /\ [][HandlerNext]_vars

\* The recording specification: sessions are constructed while the clock
\* advances.
RecordingInit ==
  /\ Constructed
  /\ session = NewSession(EmptyConfig)
  /\ nav = NoNav
  /\ norm = NoNorm
  /\ shutdown = NoShutdown
  /\ pipeline = NoPipeline
  /\ registrations = NoRegistrations
  /\ LaterIdle

RecordingNext ==
  \/ Tick
  \/ \E config \in Configs : Construct(config)

RecordingSpec == RecordingInit /\ [][RecordingNext]_vars

\* The configurations a session that receives digits was constructed with:
\* the empty one of onIncomingCall, or one of place_call with any menu.
KeypadConfigs ==
  {EmptyConfig} \cup {[record |-> Unset, dtmf_menu |-> m] : m \in Menus}

\* The delivery specification: the service runs with any dtmf_received
\* handler, the call is confirmed with its session registered (or with none),
\* and the stack delivers any digits for it.
KeypadInit ==
  /\ service = "running"
  /\ \E h \in {None, "ok", "raises"} :
       event_handlers = [[k \in Kinds |-> None] EXCEPT !["dtmf_received"] = h]
  /\ \E registered \in SUBSET CallIds, config \in KeypadConfigs :
       active_calls = [id \in registered |-> NewSession(config)]
  /\ inv_state = [c \in CallIds |-> "CONFIRMED"]
  /\ hist = [c \in CallIds |-> NoHist]
  /\ last = Outcome("start_service", -1, FALSE, << >>, FALSE, FALSE, 0)
  /\ session = NewSession(EmptyConfig)
  /\ nav = NoNav
  /\ norm = NoNorm
  /\ shutdown = NoShutdown
  /\ pipeline = NoPipeline
  /\ registrations = NoRegistrations
  /\ LaterIdle

KeypadNext ==
  \E id \in CallIds, d \in Digits, raiseAt \in {0, 1} :
    DtmfDigit(id, d, raiseAt)

KeypadSpec == KeypadInit /\ [][KeypadNext]_vars

\* The thread specification: the service runs, with or without call_connected
\* and call_ended handlers; the main thread places one call and takes the
\* shutdown snapshot while the event thread handles the call's events.
RaceInit ==
  /\ service = "running"
  /\ \E hc, he \in {None, "ok"} :
       event_handlers = [[k \in Kinds |-> None] EXCEPT
                           !["call_connected"] = hc, !["call_ended"] = he]
  /\ active_calls = EmptyRegistry
  /\ inv_state = [c \in CallIds |-> "NULL"]
  /\ hist = [c \in CallIds |-> NoHist]
  /\ last = Outcome("start_service", -1, FALSE, << >>, FALSE, FALSE, 0)
  /\ session = NewSession(EmptyConfig)
  /\ nav = NoNav
  /\ norm = NoNorm
  /\ shutdown = NoShutdown
  /\ pipeline = NoPipeline
  /\ registrations = NoRegistrations
  /\ recordings = NoRecordings
  /\ keypad = NoKeypad
  /\ \E gil \in BOOLEAN : race = [NoRace EXCEPT !.gil = gil]

RaceNext ==
  \/ \E id \in CallIds, raises \in BOOLEAN : MakeCall(id, raises)
  \/ BeginRegister
  \/ \E config \in Configs : EndRegister(config)
  \/ BeginSnapshot
  \/ EndSnapshot
  \/ \E ev \in {"confirmed", "bye"} : Deliver(ev)
  \/ BeginLookup
  \/ EndLookup
  \/ Dispatch
  \/ BeginRemove
  \/ EndRemove

RaceSpec == RaceInit /\ [][RaceNext]_vars

\* ======================================================= the claims
StackCallbacks ==
  {"onIncomingCall", "onInstantMessage", "onCallState", "onCallDtmfDigit"}

\* C1: once two disconnect events have been delivered for a call, the
\* disconnect cleanup has run exactly once: one removal from active_calls
\* and, with a call_ended handler registered, one invocation of it.
C1_DuplicateDisconnectCleansOnce ==
  \A id \in CallIds :
    hist[id].disc >= 2 =>
      /\ hist[id].removed = 1
      /\ event_handlers["call_ended"] # None => hist[id].ended = 1

\* C2: once the disconnect event of a call has been handled, whatever ended
\* the call, its identifier is absent from active_calls and call_ended was
\* emitted for it.
C2_DisconnectedIsRemoved ==
  \A id \in CallIds :
    (inv_state[id] = "DISCONNECTED" /\ hist[id].disc >= 1) =>
      /\ id \notin DOMAIN active_calls
      /\ event_handlers["call_ended"] # None => hist[id].ended >= 1

\* C3: no callback the stack invokes ends with an exception propagating out
\* of it, whatever the handler it dispatched to did.
C3_NoHandlerErrorReachesStack ==
  last.cb \in StackCallbacks => ~last.raised

\* C4: when the call_ended handler raises while a disconnect event is being
\* handled, the session is removed from active_calls all the same.
C4_CleanupSurvivesRaisingHandler ==
  (last.cb = "onCallState" /\ last.emitted = <<"call_ended">> /\ last.raised)
    => last.id \notin DOMAIN active_calls

\* C5: no registration (place_call, onIncomingCall) replaces a session that
\* is present in active_calls under the same identifier.
C5_NoSilentReplacement ==
  last.cb \in {"place_call", "onIncomingCall"} => ~last.replaced

\* C6: a registered session holds a recorder or a player only while its
\* call is Active (CONFIRMED).
C6_MediaOnlyWhileActive ==
  \A id \in DOMAIN active_calls :
    (active_calls[id].recorder \/ active_calls[id].player) =>
      inv_state[id] = "CONFIRMED"

\* C7: the incoming_call handler that plays a greeting and starts recording
\* on the still-Ringing session does nothing: it creates no player, makes no
\* transmit call with an absent media handle, and does not raise.
C7_MediaOpsOutsideActiveAreNoOps ==
  (last.cb = "onIncomingCall" /\ event_handlers["incoming_call"] = "greet")
    => /\ last.nullTx = 0
       /\ ~last.raised
       /\ ~active_calls[last.id].player

\* The nonempty prefixes of a digit sequence, and the proper ones.
Prefixes(w) == {SubSeq(w, 1, k) : k \in 1 .. Len(w)}

ProperPrefixes(w) == {SubSeq(w, 1, k) : k \in 1 .. (Len(w) - 1)}

Menu == session.config.dtmf_menu

\* The last digit was unmatched: the digits before it led to a node of the
\* menu (or there were none) without reaching an action, and that node has
\* no child for the digit.
Unmatched ==
  /\ Menu.nodes # {}
  /\ nav.walked # << >>
  /\ nav.walked \notin Menu.nodes
  /\ ProperPrefixes(nav.walked) \subseteq (Menu.nodes \ Menu.act)

\* C8: after an unmatched digit the buffer is empty, nothing was fired and
\* nothing raised; and with the example menu the digits 9,2,9,1 fire X on
\* the last one.
C8_UnmatchedDigitResets ==
  /\ Unmatched =>
       (session.dtmf_buffer = << >> /\ nav.fired = << >> /\ ~nav.raised)
  /\ (Menu = ExampleMenu /\ nav.walked = <<"9", "2", "9", "1">>) =>
       nav.fired = << <<"9", "1">> >>

\* The path p leads to a node with an action and no node before it on the
\* path has one.
FirstAction(p) == p \in Menu.act /\ ProperPrefixes(p) \cap Menu.act = {}

\* C9 as stated: for every path p from the root to a node with an action,
\* the digits of p entered from an empty buffer fire that action once, on
\* the last digit, and nothing on the digits before.
C9_ActionPathFiresOnce ==
  \A p \in Menu.act :
    /\ nav.walked = p => nav.fired = <<p>>
    /\ nav.walked \in ProperPrefixes(p) => nav.fired = << >>

\* C9 amended: the same for the paths on which no earlier node has an action.
C9_FirstActionPathFiresOnce ==
  \A p \in Menu.act :
    FirstAction(p) =>
      /\ nav.walked = p => nav.fired = <<p>>
      /\ nav.walked \in ProperPrefixes(p) => nav.fired = << >>

\* A path of two digits was entered from an empty buffer and its action,
\* the first on the path, fired on the second digit.
C9_Witness ==
  /\ Len(nav.walked) = 2
  /\ FirstAction(nav.walked)
  /\ nav.fired = <<nav.walked>>

\* C10: whenever handle_dtmf fired an action and returned, the buffer is
\* empty.
C10_ActionResetsBuffer ==
  (nav.fired # << >> /\ ~nav.raised) => session.dtmf_buffer = << >>

\* An action three levels down fired and handle_dtmf returned.
C10_Witness ==
  /\ nav.fired # << >>
  /\ ~nav.raised
  /\ Len(nav.fired[1]) = 3
  /\ session.dtmf_buffer = << >>

\* C11: for every raw phone number and every registrar endpoint the
\* normalizer returns sip:<cleaned>@<domain>, <cleaned> being the input's
\* digits with a leading '+' kept and <domain> the endpoint's host without its
\* port; "(555) 123-4567" with sip:provider.example.com gives
\* sip:5551234567@provider.example.com.
C11_NormalizedToHost ==
  (norm.pass = 1 /\ ~StartsWithSip(norm.number))
    => norm.out = SipUri(Cleaned(norm.number), <<norm.host>>)

\* C12: an address that begins with sip: passes unchanged through every
\* path that leads to a call or a message, so normalizing a normalized
\* address returns it unchanged.
C12_CanonicalPassesThrough ==
  (norm.pass >= 1 /\ norm.path \in LibPaths \cup ConsolePaths
     /\ StartsWithSip(norm.number))
    => norm.out = norm.number

\* C13: stop_service attempts a hangup on every session of the snapshot it
\* took, also when an earlier hangup raises; a failing hangup is logged and
\* neither skips the remaining hangups nor prevents the teardown of the
\* endpoint.
C13_HangupAttemptedOnAll ==
  \A t \in Threads :
    LET st == shutdown.stop[t]
    IN /\ st.pc \notin {"idle", "hangup"} => st.attempted = st.snapshot
       /\ st.pc \in {"join", "ended"} => st.destroyed
       /\ st.failed \subseteq {st.attempted[i] : i \in 1 .. Len(st.attempted)}

C13_Witness ==
  \E t \in Threads :
    LET st == shutdown.stop[t]
    IN /\ st.pc = "ended"
       /\ Len(st.snapshot) = 2
       /\ st.snapshot[1] \in st.failed
       /\ st.attempted = st.snapshot
       /\ st.destroyed

\* C14: from every state in which stop_service can be invoked, from the
\* main thread or from the event thread after an event-loop failure, it
\* returns normally, and none of its steps waits without a bound.
C14_StopServiceReturns ==
  \A t \in Threads : shutdown.stop[t].result # "raised"

\* A recording whose transcription succeeds.
Transcribable(job) == job.file /\ job.whisper /\ job.engine

\* C15: a transcription job that fails (engine error, missing recording) is
\* discarded without retry and without stalling the jobs behind it: every
\* recording after a failing one is still transcribed and forwarded, and the
\* failure never leaves the processing of its own job.
C15_FailedJobDoesNotStall ==
  /\ pipeline.alive
  /\ Len(pipeline.results) = Len(pipeline.taken)
  /\ Len(pipeline.jobs) + Len(pipeline.taken) <= MaxJobs
  /\ \A i \in 1 .. Len(pipeline.taken) :
       LET job == pipeline.taken[i]
           r == pipeline.results[i]
       IN /\ ~r.raised
          /\ r.transcribed <=> Transcribable(job)
          /\ r.forwarded <=> Transcribable(job)

C15_Witness ==
  /\ Len(pipeline.taken) = MaxJobs
  /\ ~Transcribable(pipeline.taken[1])
  /\ \A i \in 2 .. MaxJobs : pipeline.results[i].forwarded

\* The calls that ended: a disconnect event was delivered for them.
Ended == {id \in CallIds : inv_state[id] = "DISCONNECTED" /\ hist[id].disc >= 1}

\* C16: when a session with a recording (a call that was answered and has a
\* recording file) enters Disconnected, exactly one TranscriptionJob carrying
\* the recording path is enqueued, and the transition does not wait for the
\* transcription.
C16_DisconnectEnqueuesJob ==
  \A id \in Ended :
    (hist[id].answered /\ hist[id].rec)
      => Len(pipeline.jobs) + Len(pipeline.taken) >= 1

\* C17: an inbound session that is Ringing and is rejected (or cancelled by
\* the remote) goes to Disconnected without ever being Active, is removed
\* from the registry, and has no recorder and no recording file.
C17_RejectedCallLeavesNothing ==
  \A id \in Ended :
    (/\ hist[id].dir = "inbound"
     /\ ~hist[id].answered
     /\ hist[id].ev = CauseEvent("remote_reject"))
      => /\ id \notin DOMAIN active_calls
         /\ ~hist[id].rec

\* C19: on entering Disconnected the playback is stopped before the
\* recording, and both before the session is removed from the registry and
\* before call_ended is emitted.
C19_StopsPrecedeCleanup ==
  \A id \in Ended :
    LET ops == hist[id].ops
    IN \A i \in 1 .. Len(ops) :
         ops[i] \in {"call_ended", "remove"}
           => \E j, k \in 1 .. Len(ops) :
                /\ j < k /\ k < i
                /\ ops[j] = "stop_playback"
                /\ ops[k] = "stop_recording"

\* C20: when a registered session enters Active its audio media handle is
\* attached and call_connected is emitted, and a start_recording issued on
\* it transmits the call audio to the recorder.
C20_ActiveAttachesMedia ==
  \A id \in DOMAIN active_calls :
    inv_state[id] = "CONFIRMED"
      => /\ active_calls[id].audio_med
         /\ active_calls[id].recorder
              => StartRecording(active_calls[id]).session.recording
         /\ (/\ last.cb = "onCallState"
             /\ last.id = id
             /\ event_handlers["call_connected"] # None)
              => last.emitted = <<"call_connected">>

\* The handler registered last for the kind, None when there is none.
LastFor(log, kind) ==
  LET at == {i \in 1 .. Len(log) : log[i].kind = kind}
  IN IF at = {} THEN None
     ELSE log[CHOOSE i \in at : \A j \in at : j <= i].h

\* C18: the registry holds at most one handler per kind and the last
\* registration wins: after any sequence of registrations an event of a kind
\* invokes only the handler registered last for that kind, once, and a
\* registration for one kind leaves the handlers of the other kinds as they
\* were.
C18_LastRegistrationWins ==
  /\ DOMAIN event_handlers = Kinds
  /\ \A kind \in Kinds :
       event_handlers[kind] = LastFor(registrations.log, kind)
  /\ registrations.event # None =>
       registrations.invoked =
         (IF LastFor(registrations.log, registrations.event) = None
          THEN << >>
          ELSE <<LastFor(registrations.log, registrations.event)>>)

C18_Witness ==
  /\ registrations.event = "incoming_call"
  /\ registrations.invoked = <<"h2">>
  /\ \E i, j \in 1 .. Len(registrations.log) :
       /\ i < j
       /\ registrations.log[i] = [kind |-> "incoming_call", h |-> "h1"]
       /\ registrations.log[j] = [kind |-> "incoming_call", h |-> "h2"]
  /\ event_handlers["call_ended"] # None

\* C21: any two distinct CallSessions with recording enabled have different
\* recording_file values, also when both are constructed at the same reading
\* of the clock.
C21_RecordingFilesUnique ==
  \A i, j \in 1 .. Len(recordings.sessions) :
    (/\ i # j
     /\ recordings.sessions[i].recorder
     /\ recordings.sessions[j].recorder)
      => recordings.sessions[i].recording_file
           # recordings.sessions[j].recording_file

\* C22: every digit received for a registered session is appended to its
\* buffer and advances its navigation, whether or not a dtmf_received
\* handler is registered; the handler, when registered, is invoked once per
\* digit, after the navigation step.
C22_EveryDigitNavigates ==
  (keypad.delivered # << >> /\ keypad.found)
    => IF event_handlers["dtmf_received"] = None
       THEN keypad.did = <<"handle_dtmf">>
       ELSE keypad.did = <<"handle_dtmf", "dtmf_received">>

\* The depth of a menu tree: the length of its longest path.
Depth(menu) ==
  IF menu.nodes = {} THEN 0
  ELSE CHOOSE n \in {Len(p) : p \in menu.nodes} :
         \A p \in menu.nodes : Len(p) <= n

\* C26: the DTMF buffer of a session is bounded: with a configured menu it
\* is never longer than the menu tree is deep, and without a menu it does
\* not grow with the digits received (it never holds more than the last
\* digit).
C26_BufferBounded ==
  \A id \in DOMAIN active_calls :
    LET s == active_calls[id]
        menu == s.config.dtmf_menu
    IN IF menu.nodes = {}
       THEN Len(s.dtmf_buffer) <= 1
       ELSE Len(s.dtmf_buffer) <= Depth(menu)

\* C23: the accesses to active_calls from the main thread and from the
\* event thread are serialized by one mutual-exclusion guard: in no
\* interleaving are two threads inside a registry add, remove, lookup or
\* snapshot at the same time.
C23_RegistryAccessSerialized == Cardinality(race.inside) <= 1

\* C24: no call-state event of an outbound call is lost between makeCall
\* and the registration of its session: a confirmed or disconnect event
\* delivered after makeCall finds the session, so its handler is called and
\* the session does not stay registered after the call has ended.
C24_NoEventLostToTheGap ==
  /\ race.lost = << >>
  /\ (/\ race.main \in {"placed", "snapshotting", "stopping"}
      /\ race.event = "idle"
      /\ inv_state[race.id] = "DISCONNECTED")
       => race.id \notin DOMAIN active_calls

\* The endpoint was destroyed: some stop_service has called libDestroy.
Destroyed == \E t \in Threads : shutdown.stop[t].destroyed

\* C25: after the first libDestroy the event loop makes no libHandleEvents
\* call and no second libDestroy happens, in every interleaving of
\* _event_loop with stop_service, also when stop_service is invoked both by
\* the failing event loop and by the main thread.
C25_NoUseAfterDestroy ==
  [][Destroyed =>
       /\ ~(shutdown.loop = "handle" /\ shutdown'.loop # "handle")
       /\ \A t \in Threads :
            shutdown'.stop[t].destroyed = shutdown.stop[t].destroyed]_vars
====
